---- MODULE Spec2Model ----
(***************************************************************************)
(* AnchorBrowser (src/computers/anchor.py): a remote browser session at a  *)
(* vendor HTTP API, commands that try the vendor API and fall back to the  *)
(* generic Playwright driver, and the page callbacks that keep the active  *)
(* page reference.                                                         *)
(*                                                                         *)
(* The environment is nondeterministic: every HTTP exchange either raises  *)
(* a transport exception or returns a response whose `ok` flag (requests'  *)
(* Response.ok) is true or false; every fallback-driver call returns or    *)
(* raises; pages open and close at any time while a context is connected.  *)
(***************************************************************************)
EXTENDS Naturals, Sequences, FiniteSets

\* Bounds of the model.
MaxSessions == 2   \* session identifiers the vendor hands out
MaxConns == 1      \* connections opened over the vendor connection endpoint
MaxPages == 3      \* pages ever opened, over all contexts

VARIABLES
    session_id,   \* self.session_id
    _browser,     \* self._browser: None or the Browser of a connection
    _page,        \* self._page: None or a page
    pc,           \* where __enter__ / _get_browser_and_page stands
    contexts,     \* per connection opened: the pages of browser.contexts[0]
    firstPages,   \* per connection opened: the page taken as context.pages[0]
    closeListeners, \* pages on which page.on("close", ...) was called
    nPages,       \* pages opened so far
    nSessions,    \* identifiers handed out by the vendor so far
    live,         \* at the vendor: the sessions created by this object and not deleted
    tornDown,     \* a teardown of a stored session returned and no session was created since
    last,         \* what the most recent step (API call or page callback) did
    hist          \* summary of the most recent API call

vars == <<session_id, _browser, _page, pc, contexts, firstPages, closeListeners,
          nPages, nSessions, live, tornDown, last, hist>>

----------------------------------------------------------------------------
\* Values.

None == <<>>                    \* Python None
EmptyId == <<"">>               \* a falsy identifier other than None: ""
Sid(n) == <<"session", n>>      \* an identifier returned by the vendor
Page(n) == <<"page", n>>        \* a Playwright Page object
Conn(n) == <<"browser", n>>     \* a Playwright Browser object

\* Python truthiness of self.session_id (`if not self.session_id`).
Truthy(sid) == sid /= None /\ sid /= EmptyId

Buttons == {"left", "right", "back", "forward", "wheel", "middle"}

VendorBodies == {"BASE64DATA", "iVBORw0KGgo="}   \* response.text of a vendor response
FallbackImage == "FALLBACKPNG"  \* what the fallback driver's screenshot returns
PyNone == "None"                \* the value of a call that returns nothing

NoResponse == [raised |-> FALSE, ok |-> FALSE, text |-> "-"]

\* A vendor HTTP exchange as the code sees it: requests raised, or a response.
VendorResponses ==
    {[raised |-> TRUE, ok |-> FALSE, text |-> ""]}
    \cup {[raised |-> FALSE, ok |-> TRUE, text |-> b] : b \in VendorBodies}
    \cup {[raised |-> FALSE, ok |-> FALSE, text |-> "error"]}

\* A call of the fallback driver (super().screenshot/click/type): returns or raises.
FallbackOutcomes(op) ==
    {[raised |-> TRUE, value |-> "PlaywrightError"],
     [raised |-> FALSE, value |-> IF op = "screenshot" THEN FallbackImage ELSE PyNone]}

\* The vendor answers only when asked: without a usable session id no request
\* is made and there is no exchange to enumerate.
Exchanges(sid) == IF Truthy(sid) THEN VendorResponses ELSE {NoResponse}

\* A second fallback call is made only after a first one that raised.
SecondOutcomes(op, fb1) == IF fb1.raised THEN FallbackOutcomes(op) ELSE {fb1}

Request(method, path, sid, button) ==
    [method |-> method, path |-> path, sid |-> sid, button |-> button]

\* What one invocation did: the vendor requests it issued, the outcomes of the
\* fallback-driver calls it made, in order, and how it ended for the caller.
Outcome(requests, fallbacks, result) ==
    [requests |-> requests, fallbacks |-> fallbacks, result |-> result]

Returned(v) == [raised |-> FALSE, value |-> v]
Raised(e) == [raised |-> TRUE, value |-> e]

----------------------------------------------------------------------------
\* The commands, as functions of the stored session id, the vendor exchange
\* and the outcomes of the first and second fallback call.

\* screenshot() without the except clause of lines 149-151: a transport
\* exception of requests.get reaches the caller.
screenshot_no_except(sid, resp, fb1, fb2) ==
    IF ~Truthy(sid) THEN Outcome(<<>>, <<fb1>>, fb1)
    ELSE LET req == Request("GET", "screenshot", sid, "-") IN
         IF resp.raised THEN Outcome(<<req>>, <<>>, Raised("RequestException"))
         ELSE IF ~resp.ok
              THEN IF fb1.raised THEN Outcome(<<req>>, <<fb1, fb2>>, fb2)
                   ELSE Outcome(<<req>>, <<fb1>>, fb1)
         ELSE Outcome(<<req>>, <<>>, Returned(resp.text))

\* screenshot() with the test of line 143 inverted (`if response.ok:`).
screenshot_inverted_ok(sid, resp, fb1, fb2) ==
    IF ~Truthy(sid) THEN Outcome(<<>>, <<fb1>>, fb1)
    ELSE LET req == Request("GET", "screenshot", sid, "-") IN
         IF resp.raised THEN Outcome(<<req>>, <<fb1>>, fb1)
         ELSE IF resp.ok
              THEN IF fb1.raised THEN Outcome(<<req>>, <<fb1, fb2>>, fb2)
                   ELSE Outcome(<<req>>, <<fb1>>, fb1)
         ELSE Outcome(<<req>>, <<>>, Returned(resp.text))

\* screenshot(): lines 126-151.
screenshot(sid, resp, fb1, fb2) ==
    IF ~Truthy(sid) THEN Outcome(<<>>, <<fb1>>, fb1)
    ELSE LET req == Request("GET", "screenshot", sid, "-") IN
         IF resp.raised THEN Outcome(<<req>>, <<fb1>>, fb1)
         ELSE IF ~resp.ok
              THEN \* the fallback call stands inside the try block: when it
                   \* raises, the except clause calls the fallback again
                   IF fb1.raised THEN Outcome(<<req>>, <<fb1, fb2>>, fb2)
                   ELSE Outcome(<<req>>, <<fb1>>, fb1)
         ELSE Outcome(<<req>>, <<>>, Returned(resp.text))

\* button_mapping.get(button, "left"): lines 170-171.
ButtonType(button) == IF button \in {"left", "right"} THEN button ELSE "left"

\* click() with "wheel" missing from the list of line 162.
click_wheel_to_vendor(sid, button, resp, fb1, fb2) ==
    IF button \in {"back", "forward"} THEN Outcome(<<>>, <<fb1>>, fb1)
    ELSE IF ~Truthy(sid) THEN Outcome(<<>>, <<fb1>>, fb1)
    ELSE LET req == Request("POST", "mouse/click", sid, ButtonType(button)) IN
         IF resp.raised THEN Outcome(<<req>>, <<fb1>>, fb1)
         ELSE IF ~resp.ok
              THEN IF fb1.raised THEN Outcome(<<req>>, <<fb1, fb2>>, fb2)
                   ELSE Outcome(<<req>>, <<fb1>>, Returned(PyNone))
         ELSE Outcome(<<req>>, <<>>, Returned(PyNone))

\* click(x, y, button): lines 153-190.
click(sid, button, resp, fb1, fb2) ==
    IF button \in {"back", "forward", "wheel"} THEN Outcome(<<>>, <<fb1>>, fb1)
    ELSE IF ~Truthy(sid) THEN Outcome(<<>>, <<fb1>>, fb1)
    ELSE LET req == Request("POST", "mouse/click", sid, ButtonType(button)) IN
         IF resp.raised THEN Outcome(<<req>>, <<fb1>>, fb1)
         ELSE IF ~resp.ok
              THEN IF fb1.raised THEN Outcome(<<req>>, <<fb1, fb2>>, fb2)
                   ELSE Outcome(<<req>>, <<fb1>>, Returned(PyNone))
         ELSE Outcome(<<req>>, <<>>, Returned(PyNone))

\* type() without the session check of lines 199-201.
type_no_session_check(sid, resp, fb1, fb2) ==
    LET req == Request("POST", "keyboard/type", sid, "-") IN
    IF resp.raised THEN Outcome(<<req>>, <<fb1>>, fb1)
    ELSE IF ~resp.ok
         THEN IF fb1.raised THEN Outcome(<<req>>, <<fb1, fb2>>, fb2)
              ELSE Outcome(<<req>>, <<fb1>>, Returned(PyNone))
    ELSE Outcome(<<req>>, <<>>, Returned(PyNone))

\* type(text): lines 192-219.
type(sid, resp, fb1, fb2) ==
    IF ~Truthy(sid) THEN Outcome(<<>>, <<fb1>>, fb1)
    ELSE LET req == Request("POST", "keyboard/type", sid, "-") IN
         IF resp.raised THEN Outcome(<<req>>, <<fb1>>, fb1)
         ELSE IF ~resp.ok
              THEN IF fb1.raised THEN Outcome(<<req>>, <<fb1, fb2>>, fb2)
                   ELSE Outcome(<<req>>, <<fb1>>, Returned(PyNone))
         ELSE Outcome(<<req>>, <<>>, Returned(PyNone))

----------------------------------------------------------------------------
\* The remote session.

\* The POST /sessions exchange: requests raised, or a response with its `ok`
\* flag, whether its body parses as a JSON object, and the value of .get("id").
PostResponses(fresh) ==
    {[raised |-> TRUE, ok |-> FALSE, json |-> FALSE, id |-> None],
     [raised |-> FALSE, ok |-> FALSE, json |-> TRUE, id |-> None],
     [raised |-> FALSE, ok |-> TRUE, json |-> FALSE, id |-> None]}
    \cup {[raised |-> FALSE, ok |-> TRUE, json |-> TRUE, id |-> i] :
            i \in {None, EmptyId} \cup fresh}
NoPost == [raised |-> FALSE, ok |-> FALSE, json |-> FALSE, id |-> <<"-">>]

\* Lines 69-88 without the check of lines 87-88: a missing identifier is stored
\* and the connection is attempted with it.
create_session_no_id_check(sid, post) ==
    IF post.raised THEN [sid |-> sid, result |-> Raised("RequestException"), go |-> FALSE]
    ELSE IF ~post.ok THEN [sid |-> sid, result |-> Raised("HTTPError"), go |-> FALSE]
    ELSE IF ~post.json THEN [sid |-> sid, result |-> Raised("JSONDecodeError"), go |-> FALSE]
    ELSE [sid |-> post.id, result |-> Returned(PyNone), go |-> TRUE]

\* _get_browser_and_page, lines 69-88: the POST, raise_for_status, the store of
\* the identifier and the check of it. `go` tells whether line 90 is reached.
create_session(sid, post) ==
    IF post.raised THEN [sid |-> sid, result |-> Raised("RequestException"), go |-> FALSE]
    ELSE IF ~post.ok THEN [sid |-> sid, result |-> Raised("HTTPError"), go |-> FALSE]
    ELSE IF ~post.json THEN [sid |-> sid, result |-> Raised("JSONDecodeError"), go |-> FALSE]
    ELSE IF ~Truthy(post.id)
         THEN [sid |-> post.id, result |-> Raised("ValueError"), go |-> FALSE]
    ELSE [sid |-> post.id, result |-> Returned(PyNone), go |-> TRUE]

DeleteOutcomes == {"ok", "not ok", "raised"}

\* __exit__ clearing the identifier only after a DELETE response that is ok.
exit_keeps_id_when_not_ok(sid, del) ==
    IF ~Truthy(sid) THEN [sid |-> sid, requests |-> <<>>, result |-> Returned(PyNone)]
    ELSE LET req == Request("DELETE", "sessions", sid, "-") IN
         IF del = "raised"
         THEN [sid |-> sid, requests |-> <<req>>, result |-> Raised("RequestException")]
         ELSE [sid |-> IF del = "ok" THEN None ELSE sid, requests |-> <<req>>,
               result |-> Returned(PyNone)]

\* __exit__ without line 124: the identifier is never cleared.
exit_without_clear(sid, del) ==
    IF ~Truthy(sid) THEN [sid |-> sid, requests |-> <<>>, result |-> Returned(PyNone)]
    ELSE LET req == Request("DELETE", "sessions", sid, "-") IN
         IF del = "raised"
         THEN [sid |-> sid, requests |-> <<req>>, result |-> Raised("RequestException")]
         ELSE [sid |-> sid, requests |-> <<req>>, result |-> Returned(PyNone)]

\* __exit__, lines 115-124. requests.delete stands outside any try block and
\* its response is not looked at.
__exit__(sid, del) ==
    IF ~Truthy(sid) THEN [sid |-> sid, requests |-> <<>>, result |-> Returned(PyNone)]
    ELSE LET req == Request("DELETE", "sessions", sid, "-") IN
         IF del = "raised"
         THEN [sid |-> sid, requests |-> <<req>>, result |-> Raised("RequestException")]
         ELSE [sid |-> None, requests |-> <<req>>, result |-> Returned(PyNone)]

\* The caller of _get_browser_and_page stores the returned pair as the
\* connection handle and the active page ("Initial state: Active(firstPage)").
store_handle(browser, page) == [browser |-> browser, page |-> page]

----------------------------------------------------------------------------
\* The page callbacks.

Range(s) == {s[i] : i \in 1..Len(s)}
Remove(s, x) == SelectSeq(s, LAMBDA y : y /= x)

\* _handle_new_page, lines 99-103.
_handle_new_page(page, listeners) ==
    [page |-> page, listeners |-> listeners \cup {page}]

\* _handle_page_close without the test of line 108: every close re-resolves.
handle_page_close_unconditional(cur, page, browser, ctxs) ==
    IF browser = None THEN [page |-> cur, warned |-> FALSE, raised |-> TRUE]
    ELSE LET pages == ctxs[browser[2]] IN
         IF pages /= <<>>
         THEN [page |-> pages[Len(pages)], warned |-> FALSE, raised |-> FALSE]
         ELSE [page |-> None, warned |-> TRUE, raised |-> FALSE]

\* _handle_page_close, lines 105-113. `ctxs` are the page lists at the time the
\* callback runs; self._browser.contexts[0].pages fails when self._browser is None.
_handle_page_close(cur, page, browser, ctxs) ==
    IF cur /= page THEN [page |-> cur, warned |-> FALSE, raised |-> FALSE]
    ELSE IF browser = None THEN [page |-> cur, warned |-> FALSE, raised |-> TRUE]
    ELSE LET pages == ctxs[browser[2]] IN
         IF pages /= <<>>
         THEN [page |-> pages[Len(pages)], warned |-> FALSE, raised |-> FALSE]
         ELSE [page |-> None, warned |-> TRUE, raised |-> FALSE]

----------------------------------------------------------------------------
\* Records of what happened, for stating the properties.

NoHist == [exit |-> FALSE, hadSession |-> FALSE, requests |-> 0, raised |-> FALSE]

\* A step that issued no request, called no fallback and returned.
Step(op) ==
    [op |-> op, button |-> "-", sid |-> session_id, resp |-> NoResponse,
     post |-> NoPost, requests |-> <<>>, fallbacks |-> <<>>,
     result |-> Returned(PyNone), conns |-> Len(contexts), before |-> NoHist,
     page |-> None, ctx |-> 0, wasCurrent |-> FALSE, handled |-> FALSE,
     warned |-> FALSE, applied |-> 0]

ApiRecord(op, button, resp, post, out) ==
    [Step(op) EXCEPT !.button = button, !.resp = resp, !.post = post,
                     !.requests = out.requests, !.fallbacks = out.fallbacks,
                     !.result = out.result]

EventRecord(op, page, ctx, wasCurrent, handled, h) ==
    [Step(op) EXCEPT !.page = page, !.ctx = ctx, !.wasCurrent = wasCurrent, !.handled = handled,
                     !.warned = h.warned,
                     !.result = IF h.raised THEN Raised("AttributeError")
                                ELSE Returned(PyNone)]

\* __init__, lines 47 and 57-58.
Init ==
    /\ session_id = None
    /\ _browser = None
    /\ _page = None
    /\ pc = "idle"
    /\ contexts = <<>>
    /\ firstPages = <<>>
    /\ closeListeners = {}
    /\ nPages = 0
    /\ nSessions = 0
    /\ live = {}
    /\ tornDown = FALSE
    /\ last = [op |-> "__init__", button |-> "-", sid |-> None, resp |-> NoResponse,
               post |-> NoPost, requests |-> <<>>, fallbacks |-> <<>>,
               result |-> Returned(PyNone), conns |-> 0, before |-> NoHist,
               page |-> None, ctx |-> 0, wasCurrent |-> FALSE, handled |-> FALSE,
               warned |-> FALSE, applied |-> 0]
    /\ hist = NoHist

\* Whether the vendor carried out the click or the keystrokes of a request. A
\* response that is ok says it did; after a transport exception (the request or
\* only its response was lost) or a response that is not ok it may or may not have.
VendorEffects(op, resp, out) ==
    IF op = "screenshot" \/ out.requests = <<>> THEN {FALSE}
    ELSE IF ~resp.raised /\ resp.ok THEN {TRUE}
    ELSE BOOLEAN

\* How often the action of the command reached the browser: once if the vendor
\* carried it out, and once per fallback call that returned.
Applied(out, done) ==
    (IF done THEN 1 ELSE 0)
    + Cardinality({i \in 1..Len(out.fallbacks) : ~out.fallbacks[i].raised})

\* A command that forgets the session when its vendor call failed.
Command_drops_session(op, button, resp, out, done) ==
    /\ pc = "idle"
    /\ last' = [ApiRecord(op, button, IF out.requests = <<>> THEN NoResponse ELSE resp,
                          NoPost, out) EXCEPT !.applied = Applied(out, done)]
    /\ hist' = NoHist
    /\ session_id' = IF out.requests /= <<>> /\ (resp.raised \/ ~resp.ok)
                     THEN None ELSE session_id
    /\ UNCHANGED <<_browser, _page, pc, contexts, firstPages,
                   closeListeners, nPages, nSessions, live, tornDown>>

\* A command leaves everything but the records alone: screenshot, click and
\* type assign to no attribute of self.
Command(op, button, resp, out, done) ==
    /\ pc = "idle"
    /\ last' = [ApiRecord(op, button, IF out.requests = <<>> THEN NoResponse ELSE resp,
                          NoPost, out) EXCEPT !.applied = Applied(out, done)]
    /\ hist' = NoHist
    /\ UNCHANGED <<session_id, _browser, _page, pc, contexts, firstPages,
                   closeListeners, nPages, nSessions, live, tornDown>>

CallScreenshot ==
    \E resp \in Exchanges(session_id), fb1 \in FallbackOutcomes("screenshot") :
    \E fb2 \in SecondOutcomes("screenshot", fb1) :
    LET out == screenshot(session_id, resp, fb1, fb2) IN
    \E done \in VendorEffects("screenshot", resp, out) :
        Command("screenshot", "-", resp, out, done)

CallClick ==
    \E button \in Buttons, resp \in Exchanges(session_id), fb1 \in FallbackOutcomes("click") :
    \E fb2 \in SecondOutcomes("click", fb1) :
    LET out == click(session_id, button, resp, fb1, fb2) IN
    \E done \in VendorEffects("click", resp, out) :
        Command("click", button, resp, out, done)

CallType ==
    \E resp \in Exchanges(session_id), fb1 \in FallbackOutcomes("type") :
    \E fb2 \in SecondOutcomes("type", fb1) :
    LET out == type(session_id, resp, fb1, fb2) IN
    \E done \in VendorEffects("type", resp, out) :
        Command("type", "-", resp, out, done)

\* Whether the vendor deleted the session of a DELETE request: a response that
\* is ok says it did, one that is not ok says it did not; after a transport
\* exception the request, or only its response, was lost.
DeleteEffects(del, requests) ==
    IF requests = <<>> \/ del = "not ok" THEN {FALSE}
    ELSE IF del = "ok" THEN {TRUE}
    ELSE BOOLEAN

\* __exit__ called by the owner of the object.
CallExit ==
    /\ pc = "idle"
    /\ \E del \in DeleteOutcomes :
        LET x == __exit__(session_id, del) IN
        /\ session_id' = x.sid
        /\ last' = [ApiRecord("__exit__", "-", NoResponse, NoPost,
                              Outcome(x.requests, <<>>, x.result)) EXCEPT !.before = hist]
        /\ hist' = [exit |-> TRUE, hadSession |-> Truthy(session_id),
                    requests |-> Len(x.requests), raised |-> x.result.raised]
        /\ tornDown' = (tornDown \/ (Truthy(session_id) /\ ~x.result.raised))
        /\ \E gone \in DeleteEffects(del, x.requests) :
            live' = IF gone THEN live \ {session_id} ELSE live
    /\ UNCHANGED <<_browser, _page, pc, contexts, firstPages, closeListeners,
                   nPages, nSessions>>

\* _get_browser_and_page up to line 88: the session is created at the vendor.
CreateSession ==
    /\ pc = "idle"
    /\ \E post \in PostResponses(IF nSessions < MaxSessions
                                 THEN {Sid(nSessions + 1)} ELSE {}) :
        LET c == create_session(session_id, post) IN
        /\ session_id' = c.sid
        /\ pc' = IF c.go THEN "created" ELSE "idle"
        /\ nSessions' = IF post.id = Sid(nSessions + 1) THEN nSessions + 1 ELSE nSessions
        /\ last' = ApiRecord("create", "-", NoResponse, post,
                             Outcome(<<Request("POST", "sessions", None, "-")>>, <<>>, c.result))
        /\ tornDown' = (tornDown /\ ~c.go)
        /\ live' = live \cup ({post.id} \cap {Sid(nSessions + 1)})
    /\ hist' = NoHist
    /\ UNCHANGED <<_browser, _page, contexts, firstPages, closeListeners, nPages>>

\* Lines 90-95: connect_over_cdp succeeds, the new-page listener is registered on
\* the first context and its first page is taken.
Connect ==
    /\ pc = "created"
    /\ Len(contexts) < MaxConns
    /\ nPages < MaxPages
    /\ contexts' = Append(contexts, <<Page(nPages + 1)>>)
    /\ firstPages' = Append(firstPages, Page(nPages + 1))
    /\ nPages' = nPages + 1
    /\ pc' = "navigating"
    /\ last' = Step("connect")
    /\ UNCHANGED <<session_id, _browser, _page, closeListeners, nSessions, live, tornDown, hist>>

\* Lines 90-92: connect_over_cdp raises; "a connection failure propagates".
ConnectFails ==
    /\ pc = "created"
    /\ pc' = "idle"
    /\ last' = [Step("connect") EXCEPT !.result = Raised("PlaywrightError")]
    /\ UNCHANGED <<session_id, _browser, _page, contexts, firstPages, closeListeners,
                   nPages, nSessions, live, tornDown, hist>>

\* Lines 96-97 and the caller's store: page.goto returns (the first page is
\* still open) and the pair becomes the connection handle and the active page.
GotoReturns ==
    /\ pc = "navigating"
    /\ firstPages[Len(firstPages)] \in Range(contexts[Len(contexts)])
    /\ LET h == store_handle(Conn(Len(contexts)), firstPages[Len(firstPages)]) IN
        /\ _browser' = h.browser
        /\ _page' = h.page
    /\ pc' = "idle"
    /\ last' = Step("__enter__")
    /\ UNCHANGED <<session_id, contexts, firstPages, closeListeners, nPages, nSessions,
                   live, tornDown, hist>>

\* Line 96: page.goto raises; nothing is stored.
GotoFails ==
    /\ pc = "navigating"
    /\ pc' = "idle"
    /\ last' = [Step("goto") EXCEPT !.result = Raised("PlaywrightError")]
    /\ UNCHANGED <<session_id, _browser, _page, contexts, firstPages, closeListeners,
                   nPages, nSessions, live, tornDown, hist>>

\* A page opens in a connected context: Playwright adds it to context.pages and
\* emits "page", for which line 94 registered _handle_new_page.
NewPageEvent ==
    /\ nPages < MaxPages
    /\ \E c \in 1..Len(contexts) :
        LET p == Page(nPages + 1)
            h == _handle_new_page(p, closeListeners) IN
        /\ contexts' = [contexts EXCEPT ![c] = Append(@, p)]
        /\ _page' = h.page
        /\ closeListeners' = h.listeners
        /\ last' = EventRecord("new page", p, c, _page = p, TRUE,
                               [warned |-> FALSE, raised |-> FALSE])
    /\ nPages' = nPages + 1
    /\ UNCHANGED <<session_id, _browser, pc, firstPages, nSessions, live, tornDown, hist>>

\* A page closes: Playwright removes it from context.pages and emits "close" on
\* it; _handle_page_close runs if line 103 registered it on that page.
PageCloseEvent ==
    \E c \in 1..Len(contexts) : \E p \in Range(contexts[c]) :
        LET ctxs == [contexts EXCEPT ![c] = Remove(@, p)]
            h == IF p \in closeListeners
                 THEN _handle_page_close(_page, p, _browser, ctxs)
                 ELSE [page |-> _page, warned |-> FALSE, raised |-> FALSE] IN
        /\ contexts' = ctxs
        /\ _page' = h.page
        /\ last' = EventRecord("page close", p, c, _page = p, p \in closeListeners, h)
        /\ UNCHANGED <<session_id, _browser, pc, firstPages, closeListeners, nPages,
                       nSessions, live, tornDown, hist>>

Next ==
    \/ CallScreenshot
    \/ CallClick
    \/ CallType
    \/ CallExit
    \/ CreateSession
    \/ Connect
    \/ ConnectFails
    \/ GotoReturns
    \/ GotoFails
    \/ NewPageEvent
    \/ PageCloseEvent

Spec == Init /\ [][Next]_vars

----------------------------------------------------------------------------
\* Properties. `last` describes the step that led to the current state.

IsCommand == last.op \in {"screenshot", "click", "type"}

\* The command issued a request to its vendor endpoint.
AskedVendor == IsCommand /\ last.requests /= <<>>

\* The vendor exchange of the command ended in a response that is not ok.
VendorNotOk == AskedVendor /\ ~last.resp.raised /\ ~last.resp.ok

\* The vendor exchange of the command failed: no response, or one that is not ok.
VendorFailed == AskedVendor /\ (last.resp.raised \/ ~last.resp.ok)

SessionScoped == {"screenshot", "mouse/click", "keyboard/type"}

\* C1: a screenshot, left/right click or type made with a stored session id whose
\* vendor response is not ok calls the fallback operation exactly once and
\* requests the vendor endpoint exactly once, whether the fallback returns or raises.
C1_FallsBackExactlyOnce ==
    (VendorNotOk /\ Truthy(last.sid)
        /\ (last.op = "click" => last.button \in {"left", "right"}))
    => Len(last.fallbacks) = 1 /\ Len(last.requests) = 1

C3_NoSessionNoVendorCall ==
    /\ (IsCommand /\ last.sid = None)
        => Len(last.fallbacks) = 1 /\ last.requests = <<>>
    /\ \A i \in 1..Len(last.requests) :
        last.requests[i].path \in SessionScoped
            => last.sid /= None /\ last.requests[i].sid /= None

C3_Witness ==
    /\ last.op = "type" /\ last.sid = None /\ session_id = None
    /\ Len(last.fallbacks) = 1 /\ last.requests = <<>>

\* C4: click requests the vendor mouse-click endpoint only for the buttons left
\* and right; for every other button value the fallback click is used and no
\* vendor request is made.
C4_VendorClickOnlyLeftRight ==
    last.op = "click" =>
        /\ last.requests /= <<>> => last.button \in {"left", "right"}
        /\ last.button \notin {"left", "right"}
            => last.requests = <<>> /\ Len(last.fallbacks) = 1

\* C5: click with button back, forward or wheel never requests the vendor
\* mouse-click endpoint and calls the fallback click exactly once, with a
\* stored session id and without.
C5_NavigationButtonsFallBack ==
    (last.op = "click" /\ last.button \in {"back", "forward", "wheel"})
    => last.requests = <<>> /\ Len(last.fallbacks) = 1

C5_Witness ==
    /\ last.op = "click" /\ last.button = "wheel" /\ Truthy(last.sid)
    /\ last.requests = <<>> /\ Len(last.fallbacks) = 1

\* The step was a teardown that directly followed a teardown called with a
\* stored session id.
SecondTeardown == last.op = "__exit__" /\ last.before.exit /\ last.before.hadSession

\* A teardown called with no stored session id issues no request, raises
\* nothing and leaves the session id as it was.
TeardownWithoutSession ==
    (last.op = "__exit__" /\ ~Truthy(last.sid))
    => last.requests = <<>> /\ ~last.result.raised /\ session_id = last.sid

\* C6 as stated: two teardowns in a row, the first with a stored session id,
\* issue exactly one DELETE request in total and the second raises no error,
\* whatever the outcome of the first DELETE; without a stored id teardown does nothing.
C6_TeardownTwiceOneDelete ==
    /\ SecondTeardown
        => last.before.requests + Len(last.requests) = 1 /\ ~last.result.raised
    /\ TeardownWithoutSession

\* C6 amended: the above holds whenever the first DELETE returned a response (ok
\* or not); when the first DELETE raised a transport exception the session id
\* stays stored and the second teardown issues the DELETE for it again.
C6_TeardownIdempotentAfterResponse ==
    /\ (SecondTeardown /\ ~last.before.raised)
        => /\ last.before.requests + Len(last.requests) = 1
           /\ ~last.result.raised
           /\ session_id = None
    /\ (SecondTeardown /\ last.before.raised)
        => /\ last.before.requests = 1
           /\ Truthy(last.sid)
           /\ last.requests = <<Request("DELETE", "sessions", last.sid, "-")>>
    /\ TeardownWithoutSession

C6_Witness ==
    /\ SecondTeardown /\ ~last.before.raised
    /\ last.before.requests = 1 /\ last.requests = <<>>

\* C7: when the vendor responds ok to a command made with a stored session id,
\* the fallback driver is not called; screenshot returns response.text as it is.
C7_VendorSuccessNoFallback ==
    (AskedVendor /\ Truthy(last.sid) /\ ~last.resp.raised /\ last.resp.ok)
    => /\ last.fallbacks = <<>>
       /\ ~last.result.raised
       /\ last.op = "screenshot" => last.result.value = last.resp.text

C7_Witness ==
    /\ last.op = "screenshot" /\ Truthy(last.sid)
    /\ last.resp.ok /\ last.resp.text = "BASE64DATA"
    /\ last.result = Returned("BASE64DATA") /\ last.fallbacks = <<>>

\* C8: once the connection is resolved, the active page reference is none or a
\* page that is open in the context of the connection handle; when all pages of
\* that context are closed it is none.
C8_ActivePageIsOpen ==
    (pc = "idle" /\ _browser /= None)
    => /\ _page = None \/ _page \in Range(contexts[_browser[2]])
       /\ contexts[_browser[2]] = <<>> => _page = None

\* C9: when the close handler runs for the page that is the active page, the
\* active page reference becomes the last page of the context's page list if
\* pages remain, and none, with a warning emitted, if no page remains.
C9_CloseOfActivePageReResolves ==
    (last.op = "page close" /\ last.handled /\ last.wasCurrent)
    => LET pages == contexts[last.ctx] IN
       /\ pages /= <<>> => _page = pages[Len(pages)]
       /\ pages = <<>> => _page = None /\ last.warned

\* The POST /sessions response is not successful, or its JSON has no identifier.
PostWithoutSession ==
    /\ last.op = "create" /\ ~last.post.raised
    /\ ~last.post.ok \/ (last.post.json /\ last.post.id = None)

\* C10 as stated: session creation fails whenever the POST /sessions response is
\* not successful or has no identifier, then opens no connection and leaves no
\* usable session id stored; when it succeeds the stored id is the vendor's
\* identifier before the connection is opened.
C10_FailedCreationStoresNoId ==
    /\ PostWithoutSession
        => /\ last.result.raised
           /\ pc = "idle" /\ Len(contexts) = last.conns
           /\ ~Truthy(session_id)
    /\ (last.op = "create" /\ pc = "created")
        => session_id = last.post.id /\ Len(contexts) = last.conns

\* C10 amended: a failed creation opens no connection and stores no new usable
\* session id: a response that is not successful leaves the stored id as it was
\* before the call (a previously stored id stays), a missing or empty identifier
\* overwrites it with that null or empty value.
C10_FailedCreationStoresNoNewId ==
    /\ (last.op = "create"
          /\ (last.post.raised \/ ~last.post.ok \/ ~last.post.json
                \/ ~Truthy(last.post.id)))
        => /\ last.result.raised
           /\ pc = "idle" /\ Len(contexts) = last.conns
           /\ session_id = IF last.post.raised \/ ~last.post.ok \/ ~last.post.json
                           THEN last.sid ELSE last.post.id
           /\ session_id = last.sid \/ ~Truthy(session_id)
    /\ (last.op = "create" /\ ~last.result.raised)
        => /\ pc = "created"
           /\ Truthy(session_id) /\ session_id = last.post.id
           /\ Len(contexts) = last.conns

C10_Witness ==
    /\ PostWithoutSession /\ ~last.post.ok
    /\ Truthy(last.sid) /\ session_id = last.sid /\ pc = "idle"

\* C11: after a teardown of a stored session returns, the session id is null;
\* from then on, until a session is created, every command makes exactly one
\* fallback call and no vendor request, and what it returns or raises is what
\* the fallback call returned or raised.
C11_AfterTeardownFallbackOnly ==
    /\ (last.op = "__exit__" /\ Truthy(last.sid) /\ ~last.result.raised)
        => session_id = None /\ tornDown
    /\ tornDown => ~Truthy(session_id)
    /\ (tornDown /\ IsCommand)
        => /\ last.requests = <<>>
           /\ Len(last.fallbacks) = 1
           /\ last.result = last.fallbacks[1]

C11_Witness ==
    /\ tornDown /\ session_id = None
    /\ last.op = "screenshot" /\ last.requests = <<>>
    /\ last.result = Returned(FallbackImage)

\* C12: a close event for a page that is not the active page leaves the active
\* page reference and the session id unchanged, whatever pages remain.
C12_CloseOfOtherPageChangesNothing ==
    [][(last'.op = "page close" /\ ~last'.wasCurrent)
        => (_page' = _page /\ session_id' = session_id /\ ~last'.result.raised)]_vars

\* The close handler ran for a page other than the active one while the active
\* page was not the last of the remaining page list.
C12_Witness ==
    /\ last.op = "page close" /\ last.handled /\ ~last.wasCurrent
    /\ _browser /= None /\ _page /= None
    /\ contexts[last.ctx] /= <<>>
    /\ _page /= contexts[last.ctx][Len(contexts[last.ctx])]

\* C13: a new-page event for P makes P the active page and registers the close
\* listener on P, so that a close of P while it is the active page is followed
\* by the re-resolution: the last remaining page, or none, becomes the active page.
C13_NewPageThenCloseReResolves ==
    /\ last.op = "new page" => _page = last.page /\ last.page \in closeListeners
    /\ (last.op = "page close" /\ last.page \in closeListeners /\ last.wasCurrent)
        => /\ ~last.result.raised
           /\ _page = IF contexts[last.ctx] = <<>> THEN None
                      ELSE contexts[last.ctx][Len(contexts[last.ctx])]

\* C14: screenshot, click and type never change the stored session id, the
\* connection handle or the active page reference, on any path; after a failed
\* vendor call the session is neither cleared nor created again, and the next
\* command asks the vendor again with the same id.
C14_CommandsChangeNoSessionState ==
    [][last'.op \in {"screenshot", "click", "type"}
        => /\ session_id' = session_id /\ _browser' = _browser /\ _page' = _page
           /\ pc' = pc /\ nSessions' = nSessions /\ contexts' = contexts
           /\ (VendorFailed /\ last'.button \notin {"back", "forward", "wheel"})
                => /\ last'.requests /= <<>>
                   /\ last'.requests[1].sid = last.sid]_vars

C14_Witness ==
    /\ VendorFailed /\ last.op = "type" /\ last.resp.raised
    /\ Truthy(session_id) /\ session_id = last.sid
    /\ _browser /= None /\ _page /= None

\* C16: a click or type invocation applies its action to the browser at most
\* once, also when the vendor carried it out and the exchange then ended in a
\* transport exception or a response that is not ok.
C16_ActionAppliedAtMostOnce ==
    last.op \in {"click", "type"} => last.applied <= 1

\* C15: no vendor session is orphaned: every session this object created at
\* the vendor and that was not deleted there has its identifier as the stored
\* session id.
C15_NoOrphanedSession ==
    \A s \in live : s = session_id

\* C17: a new-page event and the close event of that page delivered after the
\* new-page listener is registered and before the connection handle is stored
\* are processed without error.
C17_CallbacksSafeBeforeHandleStored ==
    (last.op \in {"new page", "page close"} /\ pc = "navigating")
    => ~last.result.raised

====
